---- MODULE Spec2Model ----
(***************************************************************************)
(* A model of triangle_test (src/src/main.rs): the start-up sequence of    *)
(* main (adapter and device negotiation, format query, vertex array,       *)
(* vertex buffer, pipeline, surface configuration) followed by the         *)
(* event_loop.run closure, whose RedrawRequested arm is split into the     *)
(* statements it executes in order.                                        *)
(*                                                                         *)
(* The environment is winit and wgpu.  winit delivers events to the        *)
(* closure one at a time, in its documented order per loop iteration:      *)
(* NewEvents, window events, MainEventsCleared, RedrawRequested (when a    *)
(* redraw was requested), RedrawEventsCleared; the closure runs to         *)
(* completion before the next event is delivered; ControlFlow::Exit is     *)
(* sticky and is acted upon at the end of the iteration.  wgpu answers     *)
(* each fallible call (request_adapter, request_device,                    *)
(* get_preferred_format, get_current_texture) with any of its outcomes.    *)
(*                                                                         *)
(* Positions and colours are f32 in the source; positions are kept here    *)
(* in units of 0.5 (so 0.5 is 1, -0.5 is -1), colours in units of 1.0.     *)
(***************************************************************************)
EXTENDS Integers, Sequences, FiniteSets, TLC

\* ------------------------------------------------------------- bounds
\* The repeat count of the vertex loop ranges over 1..MaxRepeats (the
\* source fixes it to Repeats); at most MaxFrames frames are acquired.
MaxRepeats == 2
MaxFrames == 2

\* ----------------------------------------------------- program constants
Repeats == 1000000
U32Limb == 65536
VertexSize == 24

\* ------------------------------------------------------- value domains
Formats == {"Bgra8UnormSrgb", "Rgba8UnormSrgb"}
NoFormat == "NoFormat"
Sizes == {[width |-> 100, height |-> 100], [width |-> 200, height |-> 150]}
NoCfg == [format |-> NoFormat, width |-> 0, height |-> 0, present_mode |-> "None"]
NoFrame == [id |-> 0, width |-> 0, height |-> 0, format |-> NoFormat]
NoPipeline == [format |-> NoFormat, entry_vs |-> "", entry_fs |-> "", built |-> 0]
NoBuffer == [contents |-> <<>>, size |-> 0, usage |-> "None"]

VARIABLES
    spc,              \* position of main: the start-up statement to run next
    hpc,              \* position inside the closure ("Idle": it has returned)
    phase,            \* where winit is in its loop iteration
    window_size,      \* window.inner_size()
    n_triangles,      \* the repeat count of the vertex loop
    adapter,          \* outcome of request_adapter
    device,           \* outcome of request_device
    shader,           \* shader module created
    swapchain_format, \* line 85
    formatQueries,    \* sequence of the answers of get_preferred_format
    verts,            \* the Vec<Vertex>
    vertex_buffer,    \* the GPU buffer
    uploads,          \* number of create_buffer_init calls
    render_pipeline,  \* the pipeline object
    cfg,              \* the surface's Presentation Configuration
    configures,       \* number of surface.configure calls
    control_flow,     \* winit's control flow
    redraw_requested, \* window.request_redraw() pending
    wake_pending,     \* the waiting loop has been woken (an event is pending)
    inputs_seen,      \* an event from outside the program has arrived
    frames,           \* the frame counter
    frame,            \* the current SurfaceTexture (Frame Token)
    view,             \* the texture view (id of the frame it views)
    encoder,          \* state of the command encoder
    cmds,             \* commands recorded in the encoder
    submits,          \* command buffers submitted to the queue, in order
    acquired,         \* number of successful get_current_texture calls
    presents,         \* ids of the frames presented, in order
    ops,              \* calls made by the current (or last) RedrawRequested run
    acqFailed,        \* get_current_texture has returned Err
    last_event,       \* the event the closure handled last
    panic             \* the expect/unwrap that aborted the process

vars == <<spc, hpc, phase, window_size, n_triangles, adapter, device, shader,
          swapchain_format, formatQueries, verts, vertex_buffer, uploads,
          render_pipeline, cfg, configures, control_flow, redraw_requested,
          wake_pending, inputs_seen, frames, frame, view, encoder, cmds, submits, acquired, presents,
          ops, acqFailed, last_event, panic>>

startupVars == <<adapter, device, shader, swapchain_format, formatQueries,
                 verts, vertex_buffer, uploads, render_pipeline, cfg, configures>>
loopVars == <<hpc, phase, control_flow, redraw_requested, wake_pending,
              inputs_seen, frames, frame, view,
              encoder, cmds, submits, acquired, presents, ops, acqFailed,
              last_event>>
envVars == <<window_size, n_triangles>>

\* ------------------------------------------------------------ helpers
Vertex(p, c) == [position |-> p, color |-> c]

\* Option::expect / Result::expect / Option::unwrap on the failing variant:
\* the process panics and nothing of main runs afterwards.
Abort(cause) ==
    /\ spc' = "Panicked"
    /\ panic' = cause

Init ==
    /\ spc = "RequestAdapter"
    /\ hpc = "Idle"
    /\ phase = "NotRunning"
    /\ window_size \in Sizes
    /\ n_triangles \in 1..MaxRepeats
    /\ adapter = "Unset"
    /\ device = "Unset"
    /\ shader = FALSE
    /\ swapchain_format = NoFormat
    /\ formatQueries = <<>>
    /\ verts = <<>>
    /\ vertex_buffer = NoBuffer
    /\ uploads = 0
    /\ render_pipeline = NoPipeline
    /\ cfg = NoCfg
    /\ configures = 0
    /\ control_flow = "Poll"
    /\ redraw_requested = FALSE
    /\ wake_pending = FALSE
    /\ inputs_seen = FALSE
    /\ frames = 0
    /\ frame = NoFrame
    /\ view = 0
    /\ encoder = "None"
    /\ cmds = <<>>
    /\ submits = <<>>
    /\ acquired = 0
    /\ presents = <<>>
    /\ ops = <<>>
    /\ acqFailed = FALSE
    /\ last_event = "None"
    /\ panic = "None"

\* ------------------------------------------------------------ start-up
\* request_adapter(..).await.expect(..) on None
AdapterMissing ==
    /\ Abort("adapter")

\* lines 39-51
RequestAdapter ==
    /\ spc = "RequestAdapter"
    /\ \E r \in {"Some", "None"} :
         /\ adapter' = r
         /\ IF r = "Some"
              THEN spc' = "RequestDevice" /\ UNCHANGED panic
              ELSE AdapterMissing
    /\ UNCHANGED <<device, shader, swapchain_format, formatQueries, verts,
                   vertex_buffer, uploads, render_pipeline, cfg, configures>>
    /\ UNCHANGED <<loopVars, envVars>>

\* DeviceRejected with the rejection ignored: main goes on to the shader
DeviceRejectedIgnored ==
    /\ spc' = "CreateShader"
    /\ panic' = panic

\* request_device(..).await.expect(..) on Err
DeviceRejected ==
    /\ Abort("device")

\* lines 61-74
RequestDevice ==
    /\ spc = "RequestDevice"
    /\ \E r \in {"Ok", "Err"} :
         /\ device' = r
         /\ IF r = "Ok"
              THEN spc' = "CreateShader" /\ UNCHANGED panic
              ELSE DeviceRejected
    /\ UNCHANGED <<adapter, shader, swapchain_format, formatQueries, verts,
                   vertex_buffer, uploads, render_pipeline, cfg, configures>>
    /\ UNCHANGED <<loopVars, envVars>>

\* lines 77-81
CreateShader ==
    /\ spc = "CreateShader"
    /\ shader' = TRUE
    /\ spc' = "QueryFormat"
    /\ UNCHANGED <<adapter, device, swapchain_format, formatQueries, verts,
                   vertex_buffer, uploads, render_pipeline, cfg, configures, panic>>
    /\ UNCHANGED <<loopVars, envVars>>

\* line 85: surface.get_preferred_format(&adapter).unwrap()
QueryFormat ==
    /\ spc = "QueryFormat"
    /\ \E r \in Formats \cup {NoFormat} :
         /\ formatQueries' = Append(formatQueries, r)
         /\ IF r # NoFormat
              THEN /\ swapchain_format' = r
                   /\ spc' = "BuildVerts"
                   /\ UNCHANGED panic
              ELSE /\ Abort("format")
                   /\ UNCHANGED swapchain_format
    /\ UNCHANGED <<adapter, device, shader, verts, vertex_buffer, uploads,
                   render_pipeline, cfg, configures>>
    /\ UNCHANGED <<loopVars, envVars>>

\* PushTriangle with the colours of the two bottom vertices exchanged
PushTriangleColoursSwapped(v) ==
    v \o << Vertex(<<0, 1, 0>>, <<1, 0, 0>>),
            Vertex(<<-1, -1, 0>>, <<0, 0, 1>>),
            Vertex(<<1, -1, 0>>, <<0, 1, 0>>) >>

\* lines 96-98: the three pushes of one loop iteration
PushTriangle(v) ==
    v \o << Vertex(<<0, 1, 0>>, <<1, 0, 0>>),
            Vertex(<<-1, -1, 0>>, <<0, 1, 0>>),
            Vertex(<<1, -1, 0>>, <<0, 0, 1>>) >>

\* lines 94-99: for _ in 0..n { push; push; push }
RECURSIVE VertsLoop(_, _)
VertsLoop(v, n) ==
    IF n <= 0 THEN v ELSE VertsLoop(PushTriangle(v), n - 1)

BuildVerts ==
    /\ spc = "BuildVerts"
    /\ verts' = VertsLoop(<<>>, n_triangles)
    /\ spc' = "CreateBuffer"
    /\ UNCHANGED <<adapter, device, shader, swapchain_format, formatQueries,
                   vertex_buffer, uploads, render_pipeline, cfg, configures, panic>>
    /\ UNCHANGED <<loopVars, envVars>>

\* lines 102-112: create_buffer_init over the bytes of verts
CreateBuffer ==
    /\ spc = "CreateBuffer"
    /\ vertex_buffer' = [contents |-> verts,
                         size |-> VertexSize * Len(verts),
                         usage |-> "VERTEX"]
    /\ uploads' = uploads + 1
    /\ spc' = "CreatePipeline"
    /\ UNCHANGED <<adapter, device, shader, swapchain_format, formatQueries,
                   verts, render_pipeline, cfg, configures, panic>>
    /\ UNCHANGED <<loopVars, envVars>>

\* lines 134-183: targets: &[swapchain_format.into()]
CreatePipeline ==
    /\ spc = "CreatePipeline"
    /\ render_pipeline' = [format |-> swapchain_format,
                           entry_vs |-> "vs_main",
                           entry_fs |-> "fs_main",
                           built |-> render_pipeline.built + 1]
    /\ spc' = "Configure"
    /\ UNCHANGED <<adapter, device, shader, swapchain_format, formatQueries,
                   verts, vertex_buffer, uploads, cfg, configures, panic>>
    /\ UNCHANGED <<loopVars, envVars>>

\* Configure left out: the loop is started on an unconfigured surface
ConfigureSkipped ==
    /\ spc = "Configure"
    /\ spc' = "RunLoop"
    /\ UNCHANGED <<startupVars, loopVars, envVars, panic>>

\* lines 186-207: the configuration's format is the answer of a second
\* get_preferred_format call (line 194), its size is window.inner_size()
Configure ==
    /\ spc = "Configure"
    /\ \E r \in Formats \cup {NoFormat} :
         /\ formatQueries' = Append(formatQueries, r)
         /\ IF r # NoFormat
              THEN /\ cfg' = [format |-> r,
                              width |-> window_size.width,
                              height |-> window_size.height,
                              present_mode |-> "Immediate"]
                   /\ configures' = configures + 1
                   /\ spc' = "RunLoop"
                   /\ UNCHANGED panic
              ELSE /\ Abort("format")
                   /\ UNCHANGED <<cfg, configures>>
    /\ UNCHANGED <<adapter, device, shader, swapchain_format, verts,
                   vertex_buffer, uploads, render_pipeline>>
    /\ UNCHANGED <<loopVars, envVars>>

\* lines 210-212: frames = 0; event_loop.run(closure)
RunLoop ==
    /\ spc = "RunLoop"
    /\ spc' = "Running"
    /\ frames' = 0
    /\ phase' = "NewEvents"
    /\ UNCHANGED <<hpc, control_flow, redraw_requested, wake_pending,
                   inputs_seen, frame, view, encoder, cmds, submits,
                   acquired, presents, ops, acqFailed, last_event>>
    /\ UNCHANGED <<startupVars, envVars, panic>>

\* ---------------------------------------------------------- event loop
\* CallbackReturned for a loop that delivers events while the closure runs
CallbackReentrant == TRUE

\* The closure is called for one event at a time and returns before the
\* next event is delivered (line 212: a FnMut run on the loop's thread).
CallbackReturned == hpc = "Idle"

CanDispatch == spc = "Running" /\ CallbackReturned

\* lines 217 and 223: an assignment to *control_flow.  winit hands the
\* closure a dummy once the value is Exit, so Exit is never overwritten.
SetControlFlow(v) == IF control_flow = "Exit" THEN "Exit" ELSE v

frameVars == <<frames, frame, view, encoder, cmds, submits, acquired,
               presents, ops, acqFailed>>

\* Unhandled with a catch-all arm that asks for a redraw
UnhandledRequestsRedraw(e) ==
    /\ control_flow' = SetControlFlow("Wait")
    /\ last_event' = e
    /\ redraw_requested' = TRUE
    /\ UNCHANGED <<hpc, wake_pending, frameVars>>

\* lines 292-294: the catch-all arm
Unhandled(e) ==
    /\ control_flow' = SetControlFlow("Wait")
    /\ last_event' = e
    /\ UNCHANGED <<hpc, redraw_requested, wake_pending, frameVars>>

\* Event::NewEvents(_): the first event of a loop iteration
NewEvents ==
    /\ CanDispatch
    /\ phase = "NewEvents"
    /\ Unhandled("NewEvents")
    /\ UNCHANGED inputs_seen
    /\ phase' = "Events"
    /\ UNCHANGED <<spc, panic, startupVars, envVars>>

\* Resized with an arm that configures the surface for the new size
ResizedReconfigures ==
    /\ CanDispatch
    /\ phase = "Events"
    /\ \E s \in Sizes \ {window_size} :
         /\ window_size' = s
         /\ cfg' = [cfg EXCEPT !.width = s.width, !.height = s.height]
    /\ configures' = configures + 1
    /\ Unhandled("Resized")
    /\ inputs_seen' = TRUE
    /\ UNCHANGED <<adapter, device, shader, swapchain_format, formatQueries,
                   verts, vertex_buffer, uploads, render_pipeline>>
    /\ UNCHANGED <<spc, panic, phase, n_triangles>>

\* WindowEvent::Resized(size): the drawable has a new size
Resized ==
    /\ CanDispatch
    /\ phase = "Events"
    /\ \E s \in Sizes \ {window_size} : window_size' = s
    /\ Unhandled("Resized")
    /\ inputs_seen' = TRUE
    /\ UNCHANGED <<spc, panic, phase, n_triangles, startupVars>>

\* any other window or device event
OtherEvent ==
    /\ CanDispatch
    /\ phase = "Events"
    /\ Unhandled("Other")
    /\ inputs_seen' = TRUE
    /\ UNCHANGED <<spc, panic, phase, startupVars, envVars>>

\* lines 221-224
CloseRequested ==
    /\ CanDispatch
    /\ phase = "Events"
    /\ control_flow' = "Exit"
    /\ last_event' = "CloseRequested"
    /\ inputs_seen' = TRUE
    /\ UNCHANGED <<hpc, redraw_requested, wake_pending, frameVars>>
    /\ UNCHANGED <<spc, panic, phase, startupVars, envVars>>

\* MainEventsCleared with the arm left empty: no redraw is requested
MainEventsClearedNoRedraw ==
    /\ CanDispatch
    /\ phase = "Events"
    /\ control_flow' = SetControlFlow("Wait")
    /\ last_event' = "MainEventsCleared"
    /\ phase' = "Redraw"
    /\ UNCHANGED <<hpc, redraw_requested, wake_pending, inputs_seen,
                   frameVars>>
    /\ UNCHANGED <<spc, panic, startupVars, envVars>>

\* lines 289-291: window.request_redraw() posts the redraw to the loop,
\* which is an event for a loop that waits
MainEventsCleared ==
    /\ CanDispatch
    /\ phase = "Events"
    /\ control_flow' = SetControlFlow("Wait")
    /\ redraw_requested' = TRUE
    /\ wake_pending' = TRUE
    /\ last_event' = "MainEventsCleared"
    /\ phase' = "Redraw"
    /\ UNCHANGED <<hpc, inputs_seen, frameVars>>
    /\ UNCHANGED <<spc, panic, startupVars, envVars>>

\* lines 225-226: the closure enters the RedrawRequested arm
RedrawRequested ==
    /\ CanDispatch
    /\ phase = "Redraw"
    /\ redraw_requested
    /\ acquired < MaxFrames
    /\ redraw_requested' = FALSE
    /\ control_flow' = SetControlFlow("Wait")
    /\ last_event' = "RedrawRequested"
    /\ ops' = <<>>
    /\ hpc' = "Acquire"
    /\ UNCHANGED <<frames, frame, view, encoder, cmds, submits, acquired,
                   presents, acqFailed, wake_pending, inputs_seen>>
    /\ UNCHANGED <<spc, panic, phase, startupVars, envVars>>

\* Event::RedrawEventsCleared: every requested redraw has been delivered
RedrawEventsCleared ==
    /\ CanDispatch
    /\ phase = "Redraw"
    /\ ~redraw_requested
    /\ Unhandled("RedrawEventsCleared")
    /\ UNCHANGED inputs_seen
    /\ phase' = "End"
    /\ UNCHANGED <<spc, panic, startupVars, envVars>>

\* end of a loop iteration: Exit ends event_loop.run (the closure gets
\* LoopDestroyed and the process exits); Wait suspends the loop until an
\* event is pending, Poll starts the next iteration at once
IterationEnd ==
    /\ CanDispatch
    /\ phase = "End"
    /\ IF control_flow = "Exit"
         THEN /\ spc' = "Exited"
              /\ phase' = "NotRunning"
              /\ last_event' = "LoopDestroyed"
              /\ wake_pending' = wake_pending
         ELSE /\ control_flow = "Poll" \/ wake_pending
              /\ spc' = spc
              /\ phase' = "NewEvents"
              /\ last_event' = last_event
              /\ wake_pending' = FALSE
    /\ UNCHANGED <<hpc, control_flow, redraw_requested, inputs_seen, frameVars>>
    /\ UNCHANGED <<panic, startupVars, envVars>>

\* an event from outside (input, the window system) reaches the loop at the
\* end of an iteration and starts the next one
InputWakes ==
    /\ CanDispatch
    /\ phase = "End"
    /\ control_flow # "Exit"
    /\ phase' = "NewEvents"
    /\ inputs_seen' = TRUE
    /\ UNCHANGED <<hpc, control_flow, redraw_requested, wake_pending,
                   last_event, frameVars>>
    /\ UNCHANGED <<spc, panic, startupVars, envVars>>

\* ------------------------------------------- the RedrawRequested arm
\* StepAfter with frame.present() moved before queue.submit(..)
StepAfterPresentFirst(s) ==
    CASE s = "Acquire" -> "CreateView"
      [] s = "CreateView" -> "CreateEncoder"
      [] s = "CreateEncoder" -> "BeginRenderPass"
      [] s = "BeginRenderPass" -> "SetPipeline"
      [] s = "SetPipeline" -> "SetVertexBuffer"
      [] s = "SetVertexBuffer" -> "Draw"
      [] s = "Draw" -> "EndRenderPass"
      [] s = "EndRenderPass" -> "Present"
      [] s = "Present" -> "Submit"
      [] s = "Submit" -> "CountFrame"
      [] s = "CountFrame" -> "Idle"

\* lines 229-287: the statement that follows each statement of the arm
StepAfter(s) ==
    CASE s = "Acquire" -> "CreateView"
      [] s = "CreateView" -> "CreateEncoder"
      [] s = "CreateEncoder" -> "BeginRenderPass"
      [] s = "BeginRenderPass" -> "SetPipeline"
      [] s = "SetPipeline" -> "SetVertexBuffer"
      [] s = "SetVertexBuffer" -> "Draw"
      [] s = "Draw" -> "EndRenderPass"
      [] s = "EndRenderPass" -> "Submit"
      [] s = "Submit" -> "Present"
      [] s = "Present" -> "CountFrame"
      [] s = "CountFrame" -> "Idle"

\* AsU32 narrowed to 16 bits
AsU16(n) == n % U32Limb

\* line 273: `as u32` keeps the low 32 bits (two 16-bit limbs)
AsU32(n) == (n % U32Limb) + U32Limb * ((n \div U32Limb) % U32Limb)

Cmd(op, x, y, mode) == [op |-> op, x |-> x, y |-> y, mode |-> mode]

InArm(s) == spc = "Running" /\ hpc = s

loopCtl == <<phase, control_flow, redraw_requested, wake_pending, inputs_seen,
            last_event>>

\* AcquireFailed with the error swallowed and the acquisition tried again
AcquireRetried ==
    /\ spc' = spc
    /\ panic' = panic
    /\ hpc' = "Acquire"

\* line 231: .expect("Failed to acquire next swap chain texture") on Err
AcquireFailed ==
    /\ Abort("acquire")
    /\ hpc' = hpc

\* lines 229-231
Acquire ==
    /\ InArm("Acquire")
    /\ \E ok \in BOOLEAN :
         IF ok
           THEN /\ frame' = [id |-> acquired + 1,
                             width |-> cfg.width,
                             height |-> cfg.height,
                             format |-> cfg.format]
                /\ acquired' = acquired + 1
                /\ ops' = Append(ops, "acquire")
                /\ hpc' = StepAfter("Acquire")
                /\ UNCHANGED <<acqFailed, spc, panic>>
           ELSE /\ acqFailed' = TRUE
                /\ AcquireFailed
                /\ UNCHANGED <<frame, acquired, ops>>
    /\ UNCHANGED <<frames, view, encoder, cmds, submits, presents>>
    /\ UNCHANGED <<loopCtl, startupVars, envVars>>

\* lines 235-236
CreateView ==
    /\ InArm("CreateView")
    /\ view' = frame.id
    /\ ops' = Append(ops, "create_view")
    /\ hpc' = StepAfter("CreateView")
    /\ UNCHANGED <<frames, frame, encoder, cmds, submits, acquired, presents,
                   acqFailed>>
    /\ UNCHANGED <<spc, panic, loopCtl, startupVars, envVars>>

\* lines 240-241
CreateEncoder ==
    /\ InArm("CreateEncoder")
    /\ encoder' = "Recording"
    /\ cmds' = <<>>
    /\ ops' = Append(ops, "create_encoder")
    /\ hpc' = StepAfter("CreateEncoder")
    /\ UNCHANGED <<frames, frame, view, submits, acquired, presents,
                   acqFailed>>
    /\ UNCHANGED <<spc, panic, loopCtl, startupVars, envVars>>

\* lines 246-258
BeginRenderPass ==
    /\ InArm("BeginRenderPass")
    /\ encoder' = "InPass"
    /\ cmds' = Append(cmds, Cmd("begin_render_pass", view, 0,
                                "Clear(BLACK),store"))
    /\ ops' = Append(ops, "begin_render_pass")
    /\ hpc' = StepAfter("BeginRenderPass")
    /\ UNCHANGED <<frames, frame, view, submits, acquired, presents,
                   acqFailed>>
    /\ UNCHANGED <<spc, panic, loopCtl, startupVars, envVars>>

\* line 263
SetPipeline ==
    /\ InArm("SetPipeline")
    /\ cmds' = Append(cmds, Cmd("set_pipeline", 0, 0, render_pipeline.format))
    /\ ops' = Append(ops, "set_pipeline")
    /\ hpc' = StepAfter("SetPipeline")
    /\ UNCHANGED <<frames, frame, view, encoder, submits, acquired, presents,
                   acqFailed>>
    /\ UNCHANGED <<spc, panic, loopCtl, startupVars, envVars>>

\* line 268: slot 0, the whole buffer
SetVertexBuffer ==
    /\ InArm("SetVertexBuffer")
    /\ cmds' = Append(cmds, Cmd("set_vertex_buffer", 0, vertex_buffer.size, ""))
    /\ ops' = Append(ops, "set_vertex_buffer")
    /\ hpc' = StepAfter("SetVertexBuffer")
    /\ UNCHANGED <<frames, frame, view, encoder, submits, acquired, presents,
                   acqFailed>>
    /\ UNCHANGED <<spc, panic, loopCtl, startupVars, envVars>>

\* line 273: draw(0..verts.len() as u32, 0..1)
Draw ==
    /\ InArm("Draw")
    /\ cmds' = Append(cmds, Cmd("draw", AsU32(Len(verts)), 1, ""))
    /\ ops' = Append(ops, "draw")
    /\ hpc' = StepAfter("Draw")
    /\ UNCHANGED <<frames, frame, view, encoder, submits, acquired, presents,
                   acqFailed>>
    /\ UNCHANGED <<spc, panic, loopCtl, startupVars, envVars>>

\* line 276: the block ends and render_pass is dropped
EndRenderPass ==
    /\ InArm("EndRenderPass")
    /\ encoder' = "Recording"
    /\ cmds' = Append(cmds, Cmd("end_render_pass", 0, 0, ""))
    /\ ops' = Append(ops, "end_render_pass")
    /\ hpc' = StepAfter("EndRenderPass")
    /\ UNCHANGED <<frames, frame, view, submits, acquired, presents,
                   acqFailed>>
    /\ UNCHANGED <<spc, panic, loopCtl, startupVars, envVars>>

\* Submit with the finished command buffer dropped instead of submitted
SubmitDropped ==
    /\ InArm("Submit")
    /\ encoder' = "None"
    /\ submits' = submits
    /\ cmds' = <<>>
    /\ ops' = ops \o <<"finish", "submit">>
    /\ hpc' = StepAfter("Submit")
    /\ UNCHANGED <<frames, frame, view, acquired, presents, acqFailed>>
    /\ UNCHANGED <<spc, panic, loopCtl, startupVars, envVars>>

\* line 279: queue.submit(Some(encoder.finish()))
Submit ==
    /\ InArm("Submit")
    /\ encoder' = "None"
    /\ submits' = Append(submits, [frame |-> view, cmds |-> cmds])
    /\ cmds' = <<>>
    /\ ops' = ops \o <<"finish", "submit">>
    /\ hpc' = StepAfter("Submit")
    /\ UNCHANGED <<frames, frame, view, acquired, presents, acqFailed>>
    /\ UNCHANGED <<spc, panic, loopCtl, startupVars, envVars>>

\* Present with a token that stays usable after it was presented
PresentTokenKept ==
    /\ InArm("Present")
    /\ presents' = Append(presents, frame.id)
    /\ frame' = frame
    /\ ops' = Append(ops, "present")
    /\ hpc' = StepAfter("Present")
    /\ UNCHANGED <<frames, view, encoder, cmds, submits, acquired, acqFailed>>
    /\ UNCHANGED <<spc, panic, loopCtl, startupVars, envVars>>

\* line 282: frame.present() consumes the SurfaceTexture
Present ==
    /\ InArm("Present")
    /\ presents' = Append(presents, frame.id)
    /\ frame' = NoFrame
    /\ ops' = Append(ops, "present")
    /\ hpc' = StepAfter("Present")
    /\ UNCHANGED <<frames, view, encoder, cmds, submits, acquired, acqFailed>>
    /\ UNCHANGED <<spc, panic, loopCtl, startupVars, envVars>>

\* CountFrame with the increment left out
CountFrameSkipped ==
    /\ InArm("CountFrame")
    /\ frames' = frames
    /\ view' = 0
    /\ hpc' = StepAfter("CountFrame")
    /\ UNCHANGED <<frame, encoder, cmds, submits, acquired, presents, ops,
                   acqFailed>>
    /\ UNCHANGED <<spc, panic, loopCtl, startupVars, envVars>>

\* lines 285-288: frames += 1 and the arm ends (view goes out of scope)
CountFrame ==
    /\ InArm("CountFrame")
    /\ frames' = frames + 1
    /\ view' = 0
    /\ hpc' = StepAfter("CountFrame")
    /\ UNCHANGED <<frame, encoder, cmds, submits, acquired, presents, ops,
                   acqFailed>>
    /\ UNCHANGED <<spc, panic, loopCtl, startupVars, envVars>>

\* ------------------------------------------------------ specification
Next ==
    \/ RequestAdapter
    \/ RequestDevice
    \/ CreateShader
    \/ QueryFormat
    \/ BuildVerts
    \/ CreateBuffer
    \/ CreatePipeline
    \/ Configure
    \/ RunLoop
    \/ NewEvents
    \/ Resized
    \/ OtherEvent
    \/ CloseRequested
    \/ MainEventsCleared
    \/ RedrawRequested
    \/ RedrawEventsCleared
    \/ IterationEnd
    \/ InputWakes
    \/ Acquire
    \/ CreateView
    \/ CreateEncoder
    \/ BeginRenderPass
    \/ SetPipeline
    \/ SetVertexBuffer
    \/ Draw
    \/ EndRenderPass
    \/ Submit
    \/ Present
    \/ CountFrame

Spec == Init /\ [][Next]_vars

\* the steps the program and the loop take by themselves: everything but
\* the arrival of an event from outside
ProgramStep ==
    \/ RequestAdapter
    \/ RequestDevice
    \/ CreateShader
    \/ QueryFormat
    \/ BuildVerts
    \/ CreateBuffer
    \/ CreatePipeline
    \/ Configure
    \/ RunLoop
    \/ NewEvents
    \/ MainEventsCleared
    \/ RedrawRequested
    \/ RedrawEventsCleared
    \/ IterationEnd
    \/ Acquire
    \/ CreateView
    \/ CreateEncoder
    \/ BeginRenderPass
    \/ SetPipeline
    \/ SetVertexBuffer
    \/ Draw
    \/ EndRenderPass
    \/ Submit
    \/ Present
    \/ CountFrame

\* main and the loop's thread keep running: a step they can take is taken
LiveSpec == Init /\ [][Next]_vars /\ WF_vars(ProgramStep)

TypeOK ==
    /\ spc \in {"RequestAdapter", "RequestDevice", "CreateShader",
                "QueryFormat", "BuildVerts", "CreateBuffer", "CreatePipeline",
                "Configure", "RunLoop", "Running", "Panicked", "Exited"}
    /\ frames \in 0..MaxFrames
    /\ acquired \in 0..MaxFrames
    /\ control_flow \in {"Poll", "Wait", "Exit"}
    /\ cfg.format \in Formats \cup {NoFormat}

\* ------------------------------------------------------------ claims
Range(q) == {q[i] : i \in 1..Len(q)}

IsPrefix(p, q) == Len(p) <= Len(q) /\ \A i \in 1..Len(p) : p[i] = q[i]

FrameStages ==
    << "acquire", "create_view", "create_encoder", "begin_render_pass",
       "set_pipeline", "set_vertex_buffer", "draw", "end_render_pass",
       "finish", "submit", "present" >>

OpsOf(c) == [i \in 1..Len(c) |-> c[i].op]

\* C1: within one handling of RedrawRequested the calls made so far are
\* always an initial part of acquire, record (one render pass that clears to
\* black and stores, set pipeline, set vertex buffer at slot 0, one draw,
\* end of pass, finish), submit, present; the closure has returned from a
\* frame only with the whole sequence made, and every submitted command
\* buffer holds exactly that one render pass with exactly one draw.
C1_StageOrder ==
    /\ IsPrefix(ops, FrameStages)
    /\ (hpc \in {"Idle", "CountFrame"} /\ ops # <<>>) => ops = FrameStages
    /\ (hpc = "Idle" /\ frames > 0) => ops = FrameStages
    /\ frames <= Len(presents)
    /\ Len(presents) <= Len(submits)
    /\ Len(submits) <= acquired
    /\ \A i \in 1..Len(submits) :
         /\ OpsOf(submits[i].cmds) =
              << "begin_render_pass", "set_pipeline", "set_vertex_buffer",
                 "draw", "end_render_pass" >>
         /\ submits[i].cmds[1].mode = "Clear(BLACK),store"
         /\ submits[i].cmds[1].x = i
         /\ submits[i].cmds[3].x = 0

C1_Witness == frames = 2 /\ hpc = "Idle" /\ Len(submits) = 2

\* C2: once the CloseRequested arm has run (control flow is Exit), no
\* further frame is acquired.
C2_NoAcquireAfterClose ==
    [][control_flow = "Exit" => acquired' = acquired]_vars

\* C3: a frame is only ever acquired under a Presentation Configuration
\* whose width and height are the drawable's current size.
C3_AcquiredSizeIsCurrent ==
    frame # NoFrame =>
        /\ cfg.width = window_size.width
        /\ cfg.height = window_size.height
        /\ frame.width = window_size.width
        /\ frame.height = window_size.height

LiveTokens == {t \in 1..acquired : t \notin Range(presents)}

\* C4: at most one Frame Token is live, and it is the one the closure
\* holds; tokens are presented once each, in the order acquired, never again
\* after presentation, and none is live when the next acquisition begins.
C4_SingleLiveToken ==
    /\ Cardinality(LiveTokens) <= 1
    /\ LiveTokens = (IF frame = NoFrame THEN {} ELSE {frame.id})
    /\ \A i \in 1..Len(presents) : presents[i] = i
    /\ hpc \in {"Idle", "Acquire"} => LiveTokens = {}

C4_Witness ==
    /\ acquired = 2
    /\ presents = <<1>>
    /\ frame.id = 2
    /\ hpc = "Present"

PipelineBound == \E i \in 1..Len(cmds) : cmds[i].op = "set_pipeline"

\* C5: while the pipeline is bound in a render pass, the format it was
\* built with is the format of the surface's configuration.
C5_PipelineFormatIsSurfaceFormat ==
    PipelineBound => render_pipeline.format = cfg.format

\* C6: when the surface is configured, get_preferred_format has been
\* called exactly once, and its answer is the configuration's format.
C6_SingleFormatQuery ==
    cfg # NoCfg =>
        /\ Len(formatQueries) = 1
        /\ cfg.format = formatQueries[1]
        /\ cfg.format = swapchain_format

NoFrameInFlight(f, e, c) == f = NoFrame /\ e = "None" /\ c = <<>>

\* C7: the close transition, the end of the loop, a size-changed signal
\* and any change of the surface's configuration happen only in steps that
\* begin and end with no Frame Token live and no command sequence recorded
\* or awaiting submission.
C7_SignalsOnlyBetweenFrames ==
    [][ ( \/ control_flow' # control_flow
          \/ window_size' # window_size
          \/ cfg' # cfg
          \/ (spc' = "Exited" /\ spc # "Exited")
          \/ (last_event' \in {"CloseRequested", "Resized"}
                /\ last_event' # last_event) )
        => ( /\ hpc = "Idle"
             /\ hpc' = "Idle"
             /\ NoFrameInFlight(frame, encoder, cmds)
             /\ NoFrameInFlight(frame', encoder', cmds')
             /\ Len(presents) = acquired
             /\ Len(submits) = acquired ) ]_vars

C7_Witness ==
    /\ last_event = "CloseRequested"
    /\ control_flow = "Exit"
    /\ frames = 1
    /\ window_size # [width |-> cfg.width, height |-> cfg.height]

\* C8: once get_current_texture has failed the process has panicked and
\* takes no further step; that frame recorded, submitted and presented
\* nothing, the frame counter counts only the frames presented before, and
\* the surface was not configured again.
C8_AcquireFailureIsTerminal ==
    acqFailed =>
        /\ spc = "Panicked"
        /\ panic = "acquire"
        /\ ~ ENABLED Next
        /\ ops = <<>>
        /\ NoFrameInFlight(frame, encoder, cmds)
        /\ Len(submits) = acquired
        /\ Len(presents) = acquired
        /\ frames = acquired
        /\ configures = 1

C8_Witness == acqFailed /\ frames = 1 /\ panic = "acquire"

\* C9: when request_adapter finds no adapter or request_device is
\* rejected the process has panicked and takes no further step; no shader,
\* pipeline or vertex buffer exists, the surface is not configured, the
\* format was never queried and no frame was acquired.
C9_NegotiationFailureIsFatal ==
    (adapter = "None" \/ device = "Err") =>
        /\ spc = "Panicked"
        /\ panic \in {"adapter", "device"}
        /\ ~ ENABLED Next
        /\ shader = FALSE
        /\ render_pipeline = NoPipeline
        /\ vertex_buffer = NoBuffer
        /\ verts = <<>>
        /\ cfg = NoCfg
        /\ configures = 0
        /\ formatQueries = <<>>
        /\ acquired = 0
        /\ phase = "NotRunning"

C9_Witness == adapter = "Some" /\ device = "Err" /\ spc = "Panicked"

VertsBuilt ==
    spc \in {"CreateBuffer", "CreatePipeline", "Configure", "RunLoop",
             "Running", "Exited"}

\* C10: the vertex array built for repeat count n has exactly 3*n
\* vertices; for every k in 0..n-1 the vertices 3k, 3k+1, 3k+2 (counted from
\* 0) are the red apex (0, 0.5, 0), the green bottom-left (-0.5, -0.5, 0)
\* and the blue bottom-right (0.5, -0.5, 0).  Positions in units of 0.5.
C10_VertexArray ==
    VertsBuilt =>
        /\ Len(verts) = 3 * n_triangles
        /\ \A k \in 0..(n_triangles - 1) :
             /\ verts[3 * k + 1] =
                  [position |-> <<0, 1, 0>>, color |-> <<1, 0, 0>>]
             /\ verts[3 * k + 2] =
                  [position |-> <<-1, -1, 0>>, color |-> <<0, 1, 0>>]
             /\ verts[3 * k + 3] =
                  [position |-> <<1, -1, 0>>, color |-> <<0, 0, 1>>]

C10_Witness == n_triangles = 2 /\ Len(verts) = 6 /\ spc = "Running"

DrawsOf(c) == {i \in 1..Len(c) : c[i].op = "draw"}

\* C11: every submitted command buffer has exactly one draw, over the
\* vertices 0..3*n with one instance, where 3*n is the number of vertices in
\* the uploaded buffer (its size divided by the size of a vertex); and the
\* conversion to u32 keeps 3 * 1,000,000 unchanged.
C11_DrawCoversAllVertices ==
    /\ AsU32(3 * Repeats) = 3 * Repeats
    /\ \A i \in 1..Len(submits) :
         /\ Cardinality(DrawsOf(submits[i].cmds)) = 1
         /\ \A d \in DrawsOf(submits[i].cmds) :
              /\ submits[i].cmds[d].x = 3 * n_triangles
              /\ submits[i].cmds[d].x * 24 = vertex_buffer.size
              /\ submits[i].cmds[d].x = Len(vertex_buffer.contents)
              /\ submits[i].cmds[d].y = 1

C11_Witness ==
    /\ Len(submits) = 2
    /\ n_triangles = 2
    /\ submits[2].cmds[4].x = 6

LoopEntered == phase # "NotRunning" \/ hpc # "Idle" \/ acquired > 0

\* C12: the vertex buffer upload, the pipeline construction and the
\* surface configuration are each done at most once, and each has been done
\* (the buffer holding the whole vertex array, the pipeline built for a
\* queried format) in every state in which the event loop has been entered
\* or a frame has been acquired.
C12_SetupBeforeFirstFrame ==
    /\ uploads <= 1
    /\ render_pipeline.built <= 1
    /\ configures <= 1
    /\ LoopEntered =>
         /\ uploads = 1
         /\ vertex_buffer.usage = "VERTEX"
         /\ vertex_buffer.contents = verts
         /\ Len(verts) = 3 * n_triangles
         /\ render_pipeline.built = 1
         /\ render_pipeline.format \in Formats
         /\ configures = 1
         /\ cfg.format \in Formats
         /\ cfg.present_mode = "Immediate"

C12_Witness ==
    /\ hpc = "Draw"
    /\ acquired = 1
    /\ uploads = 1
    /\ configures = 1
    /\ render_pipeline.built = 1

\* C13: no step taken once the event loop has been entered changes the
\* adapter, the device, the shader, the queried format, the vertex array,
\* the vertex buffer (contents and size), the pipeline or the surface's
\* configuration; what such steps change is the frame, its view and encoder,
\* the frame counter, the redraw request and the control flow.
C13_LoopLeavesResourcesAlone ==
    [][ phase # "NotRunning" =>
          /\ UNCHANGED <<adapter, device, shader, swapchain_format,
                         formatQueries, verts, vertex_buffer, uploads,
                         render_pipeline, cfg, configures>>
          /\ UNCHANGED n_triangles ]_vars

C13_Witness ==
    /\ spc = "Exited"
    /\ frames = 2
    /\ window_size # [width |-> cfg.width, height |-> cfg.height]

C15_SubmissionOrderIsAcquisitionOrder ==
    /\ \A i \in 1..Len(submits) :
         /\ submits[i].frame = i
         /\ submits[i].cmds # <<>>
         /\ submits[i].cmds[1].x = i
    /\ Len(presents) <= Len(submits)
    /\ \A j \in 1..acquired :
         \A i \in 1..(j - 1) :
             /\ i <= Len(submits)
             /\ i <= Len(presents)
             /\ presents[i] = submits[i].frame

C15_Witness ==
    /\ acquired = 2
    /\ hpc = "Submit"
    /\ Len(submits) = 1
    /\ submits[1].frame = 1

\* C17, as stated: in every reachable state the frame counter equals the
\* number of frames presented so far.
C17_CounterEqualsPresented == frames = Len(presents)

CounterTracksPresents(h, f, p) ==
    IF h = "CountFrame" THEN f + 1 = Len(p) ELSE f = Len(p)

\* C17, amended: the frame counter equals the number of frames presented
\* so far, except between frame.present() and the frames += 1 that follows
\* it, where it is one less; it changes only by that statement, by exactly
\* one, and no event other than RedrawRequested changes it.
C17_CounterFollowsPresent ==
    [][ /\ CounterTracksPresents(hpc, frames, presents)
        /\ CounterTracksPresents(hpc', frames', presents')
        /\ frames' # frames =>
             /\ frames' = frames + 1
             /\ hpc = "CountFrame"
             /\ hpc' = "Idle"
             /\ ops[Len(ops)] = "present"
             /\ last_event = "RedrawRequested"
             /\ presents' = presents
        /\ presents' # presents =>
             /\ hpc' = "CountFrame"
             /\ Len(presents') = Len(presents) + 1 ]_vars

C17_Witness ==
    /\ hpc = "CountFrame"
    /\ Len(presents) = 2
    /\ frames = 1

IgnoredEvents == {"NewEvents", "Resized", "Other", "RedrawEventsCleared"}

\* C18: a step in which the closure handles an event other than
\* CloseRequested, RedrawRequested and MainEventsCleared (a size-changed
\* event included) acquires, submits and presents nothing, leaves the
\* surface's configuration, the redraw request and the frame counter as they
\* were, does not set the control flow to Exit and does not end the loop.
C18_OtherEventsIgnored ==
    [][ last_event' \in IgnoredEvents =>
          /\ UNCHANGED <<acquired, frame, view, encoder, cmds, submits,
                         presents, ops, acqFailed>>
          /\ UNCHANGED <<cfg, configures, formatQueries>>
          /\ UNCHANGED <<redraw_requested, frames, hpc, spc, panic>>
          /\ hpc = "Idle"
          /\ (control_flow' = "Exit") = (control_flow = "Exit") ]_vars

C18_Witness ==
    /\ last_event = "Resized"
    /\ frames = 1
    /\ control_flow = "Wait"
    /\ ~redraw_requested
    /\ window_size # [width |-> cfg.width, height |-> cfg.height]

====
